---- MODULE Spec2Model ----
(***************************************************************************)
(* Virtual concat MTD driver (drivers/mtd/mtd_virt_concat.c): the list of  *)
(* concatenation components, its scan from the device tree, the matching   *)
(* of arriving MTD devices, the late join and the module exit.             *)
(***************************************************************************)
EXTENDS Integers, Sequences, FiniteSets, TLC

\* ---------------------------------------------------------------- bounds
MaxScans == 1       \* calls of mtd_virt_concat_node_create that scan the tree
MaxTeardown == 2    \* calls of mtd_virt_concat_exit in one run

\* ------------------------------------------------------------- constants
MIN_DEV_PER_CONCAT == 2
ENOMEM == 12
ENXIO == 6
EIO == 5            \* the error mtd_device_register is made to return

NULL == "NULL"

\* MTD devices that may be offered, and the device-tree node of each
\* (mtd->dev.of_node).
Devices == {"mtdA", "mtdB", "mtdC", "mtdD"}
OfNode(mtd) ==
    CASE mtd = "mtdA" -> "nA"
      [] mtd = "mtdB" -> "nB"
      [] mtd = "mtdC" -> "nC"
      [] mtd = "mtdD" -> "nD"

\* The device-tree nodes that may carry a "part-concat" property, in tree
\* order, with the phandles the property lists.
DtNodes == << <<"nA", "nB">>, <<"nA">>, <<"nC", "nD">>, <<"nA", "nB", "nC">> >>

\* A device tree: the status of each node ("absent" stands for a tree without
\* the node; the trees drawn have every node).
Configs == [DOMAIN DtNodes -> {"disabled", "okay"}]

\* Values an uninitialized int may hold when it is read.
Garbage == {-1, 0, 1}

\* Outcomes of reading an item that was freed and is still linked: the old
\* contents are read, or the kernel oopses.
UbOutcomes == {"stale", "crash"}

\* The struct mtd_info objects the driver hands to the MTD core and engine.
EmbMtd(i) == <<"emb", i>>       \* &item->concat->mtd of the i-th item
BuiltMtd(i) == <<"built", i>>   \* what mtd_concat_create returned for it
Mtds == {EmbMtd(i) : i \in DOMAIN DtNodes} \cup {BuiltMtd(i) : i \in DOMAIN DtNodes}

VARIABLES
    list,       \* concat_node_list: sequence of struct mtd_virt_concat_node
    calls,      \* the calls the last operation made into the allocator, OF,
                \* the MTD core and the concatenation engine, in order
    op,         \* the last operation
    ret,        \* its return value
    crashed,    \* the kernel oopsed
    arrived,    \* the devices offered so far to a list that held items
    phase,      \* "probe" until the late initcall ran, then "late", then "exit"
    nScan,      \* scans of the device tree so far
    nTeardown,  \* calls of mtd_virt_concat_exit so far
    nPut,       \* per device: put_mtd_device calls so far
    nDestroy,   \* per struct mtd_info: mtd_concat_destroy calls so far
    published   \* the struct mtd_info objects registered with the MTD core

vars == <<list, calls, op, ret, crashed, arrived, phase, nScan,
          nTeardown, nPut, nDestroy, published>>

\* ---------------------------------------------------------------- helpers
Ev(f, x) == <<f, x>>
ItemObj(i) == <<"item", i>>
NodesObj(i) == <<"nodes", i>>
ConcatObj(i) == <<"concat", i>>
SubdevObj(i) == <<"subdev", i>>
NameObj(i) == <<"name", i>>
PartsObj(k) == <<"parts", k>>
RefObj(n) == <<"ref", n>>

\* How often the call e occurs in cs.
RECURSIVE CountFrom(_, _, _)
CountFrom(cs, j, e) ==
    IF j > Len(cs) THEN 0
    ELSE (IF cs[j][1] = e[1] /\ cs[j][2] = e[2] THEN 1 ELSE 0) + CountFrom(cs, j + 1, e)
Count(cs, e) == CountFrom(cs, 1, e)

\* The bookkeeping of the environment after the calls cs.
PutAfter(cs) == [d \in Devices |-> nPut[d] + Count(cs, Ev("put_mtd_device", d))]
DestroyAfter(cs) == [m \in Mtds |-> nDestroy[m] + Count(cs, Ev("mtd_concat_destroy", m))]
PublishedAfter(cs) ==
    (published \cup {m \in Mtds : Count(cs, Ev("mtd_device_register", m)) > 0})
        \ {m \in Mtds : Count(cs, Ev("mtd_device_unregister", m)) > 0}

NullSlots(n) == [j \in 1..n |-> NULL]

\* A struct mtd_virt_concat_node with its struct mtd_concat.  subdev[j] of
\* the C array is subdev[j + 1] here.
NewItem(refs) ==
    [count |-> Len(refs), nodes |-> refs, num_subdev |-> 0,
     subdev |-> NullSlots(Len(refs)), freed |-> FALSE]

Items == DOMAIN list
AnyFreed(l) == \E i \in DOMAIN l : l[i].freed

\* ------------------------------------------------ mtd_virt_concat_create_item
\* st holds the list, the calls made and the number of allocations made so far
\* in this scan; failAt is the number of the allocation that fails (0: none).
\* Returns st with ret set.
RECURSIVE ParseAll(_, _, _)
ParseAll(refs, j, cs) ==
    IF j > Len(refs) THEN cs
    ELSE ParseAll(refs, j + 1, Append(cs, Ev("of_parse_phandle", RefObj(refs[j]))))

mtd_virt_concat_create_item(st, refs, failAt) ==
    LET i == Len(st.list) + 1
        a1 == st.nalloc + 1
        c1 == Append(st.calls, Ev("kzalloc", ItemObj(i)))
        c2 == Append(c1, Ev("kcalloc", NodesObj(i)))
        c3 == ParseAll(refs, 1, c2)
        c4 == Append(c3, Ev("kzalloc", ConcatObj(i)))
        c5 == Append(c4, Ev("kcalloc", SubdevObj(i)))
    IN  IF failAt = a1
        THEN [st EXCEPT !.nalloc = a1, !.ret = -ENOMEM]
        ELSE IF failAt = a1 + 1
        THEN [st EXCEPT !.nalloc = a1 + 1, !.ret = -ENOMEM,
                        !.calls = Append(c1, Ev("kfree", ItemObj(i)))]
        ELSE IF failAt = a1 + 2
        THEN [st EXCEPT !.nalloc = a1 + 2, !.ret = -ENOMEM,
                        !.calls = Append(c3, Ev("kfree", ItemObj(i)))]
        ELSE IF failAt = a1 + 3
        THEN [st EXCEPT !.nalloc = a1 + 3, !.ret = -ENOMEM,
                        !.calls = Append(Append(c4, Ev("kfree", ItemObj(i))),
                                         Ev("kfree", ConcatObj(i)))]
        ELSE [st EXCEPT !.nalloc = a1 + 3, !.ret = 0, !.calls = c5,
                        !.list = Append(st.list, NewItem(refs))]

\* ---------------------------------------------- mtd_virt_concat_destroy_items
RECURSIVE PutNodes(_, _, _)
PutNodes(nodes, j, cs) ==
    IF j > Len(nodes) THEN cs
    ELSE PutNodes(nodes, j + 1, Append(cs, Ev("of_node_put", RefObj(nodes[j]))))

RECURSIVE DestroyItemsFrom(_, _, _)
DestroyItemsFrom(l, i, cs) ==
    IF i > Len(l) THEN cs
    ELSE DestroyItemsFrom(l, i + 1,
            Append(Append(PutNodes(l[i].nodes, 1, cs),
                          Ev("kfree", NodesObj(i))),
                   Ev("kfree", ItemObj(i))))

\* The items are freed and stay linked: there is no list_del.
mtd_virt_concat_destroy_items(st) ==
    [st EXCEPT !.calls = DestroyItemsFrom(st.list, 1, st.calls),
               !.list = [i \in DOMAIN st.list |-> [st.list[i] EXCEPT !.freed = TRUE]]]

\* ----------------------------------------------- mtd_virt_concat_node_create
\* of_find_node_with_property(parts, ...) drops the reference on the node it
\* continues from and takes one on the node it returns.  Absent nodes are not
\* in the tree: NextNode is the next node present after the k-th, or 0.
RECURSIVE NextNode(_, _)
NextNode(cfg, k) ==
    IF k >= Len(DtNodes) THEN 0
    ELSE IF cfg[k + 1] # "absent" THEN k + 1
    ELSE NextNode(cfg, k + 1)

FindNode(from, to, cs) ==
    LET c1 == IF from # 0 THEN Append(cs, Ev("of_node_put", PartsObj(from))) ELSE cs
    IN  IF to # 0 THEN Append(c1, Ev("of_find_node", PartsObj(to))) ELSE c1

\* A variant of the loop below in which a node that is not available ends
\* the scan (break where the code says continue).
RECURSIVE ScanFromStopsAtUnavailable(_, _, _, _)
ScanFromStopsAtUnavailable(cfg, from, st, failAt) ==
    LET k == NextNode(cfg, from)
        ok == k # 0 /\ cfg[k] = "okay"
        s0 == [st EXCEPT !.calls = Append(FindNode(from, k, st.calls),
                                          Ev("of_device_is_available", <<k, ok>>))]
    IN  IF k = 0 THEN s0
        ELSE IF ~ok THEN s0
        ELSE LET s1 == [s0 EXCEPT !.count = Len(DtNodes[k]), !.assigned = TRUE,
                                  !.calls = Append(s0.calls,
                                      Ev("of_count_phandle_with_args", <<k, Len(DtNodes[k])>>))]
             IN  IF s1.count < MIN_DEV_PER_CONCAT
                 THEN ScanFromStopsAtUnavailable(cfg, k, s1, failAt)
                 ELSE LET s2 == mtd_virt_concat_create_item(s1, DtNodes[k], failAt)
                      IN  IF s2.ret # 0
                          THEN [s2 EXCEPT !.calls =
                                   Append(s2.calls, Ev("of_node_put", PartsObj(k)))]
                          ELSE ScanFromStopsAtUnavailable(cfg, k, s2, failAt)

\* The do-while loop from the iteration that continues from node `from`.
\* st.ret # 0 at the end says that mtd_virt_concat_create_item failed;
\* st.assigned says that count was assigned at least once.
RECURSIVE ScanFrom(_, _, _, _)
ScanFrom(cfg, from, st, failAt) ==
    LET k == NextNode(cfg, from)
        ok == k # 0 /\ cfg[k] = "okay"
        s0 == [st EXCEPT !.calls = Append(FindNode(from, k, st.calls),
                                          Ev("of_device_is_available", <<k, ok>>))]
    IN  IF k = 0 THEN s0
        ELSE IF ~ok THEN ScanFrom(cfg, k, s0, failAt)
        ELSE LET s1 == [s0 EXCEPT !.count = Len(DtNodes[k]), !.assigned = TRUE,
                                  !.calls = Append(s0.calls,
                                      Ev("of_count_phandle_with_args", <<k, Len(DtNodes[k])>>))]
             IN  IF s1.count < MIN_DEV_PER_CONCAT
                 THEN ScanFrom(cfg, k, s1, failAt)
                 ELSE LET s2 == mtd_virt_concat_create_item(s1, DtNodes[k], failAt)
                      IN  IF s2.ret # 0
                          THEN [s2 EXCEPT !.calls =
                                   Append(s2.calls, Ev("of_node_put", PartsObj(k)))]
                          ELSE ScanFrom(cfg, k, s2, failAt)

\* The whole function on an empty list.  garbage is what the read of count
\* yields when no available node assigned it.
NodeCreateScan(cfg, failAt, garbage) ==
    LET s0 == [list |-> <<>>, calls |-> <<>>, nalloc |-> 0, count |-> 0,
               assigned |-> FALSE, ret |-> 0]
        s1 == ScanFrom(cfg, 0, s0, failAt)
        a1 == s1.nalloc + 1
        cnt == IF s1.assigned THEN s1.count ELSE garbage
        c1 == Append(s1.calls, Ev("kzalloc", ConcatObj(0)))
    IN  IF s1.ret # 0
        THEN mtd_virt_concat_destroy_items(s1)
        ELSE IF failAt = a1
        THEN mtd_virt_concat_destroy_items([s1 EXCEPT !.ret = -ENOMEM])
        ELSE IF failAt = a1 + 1 \/ cnt < 0
        THEN mtd_virt_concat_destroy_items(
                 [s1 EXCEPT !.ret = -ENOMEM,
                            !.calls = Append(c1, Ev("kfree", ConcatObj(0)))])
        ELSE [s1 EXCEPT !.ret = cnt,
                        !.calls = Append(c1, Ev("kcalloc", SubdevObj(0)))]

\* Allocations one scan can make: four per item and two after the loop.
MaxAllocs ==
    4 * Cardinality({k \in DOMAIN DtNodes : Len(DtNodes[k]) >= MIN_DEV_PER_CONCAT}) + 2

\* The guard of lines 164-165 on a list l that holds items: nothing is
\* scanned and 0 is returned.
\* A variant without the guard: the tree (every node available) is scanned
\* again and its items are appended.
NodeCreateOnHeldListRescans(l) ==
    LET r == NodeCreateScan([k \in DOMAIN DtNodes |-> "okay"], 0, 0)
    IN  [list |-> l \o r.list, calls |-> r.calls, ret |-> r.ret]

NodeCreateOnHeldList(l) == [list |-> l, calls |-> <<>>, ret |-> 0]

mtd_virt_concat_node_create ==
    /\ ~crashed
    /\ phase = "probe"
    /\ op' = "node_create"
    /\ IF list # <<>>
       THEN LET r == NodeCreateOnHeldList(list)
            IN  /\ list' = r.list
                /\ calls' = r.calls
                /\ ret' = r.ret
                /\ UNCHANGED nScan
       ELSE /\ nScan < MaxScans
            /\ nScan' = nScan + 1
            /\ \E cfg \in Configs, failAt \in 0..MaxAllocs :
                 \E garbage \in (IF \E k \in DOMAIN cfg : cfg[k] = "okay"
                                  THEN {0} ELSE Garbage) :
                    LET r == NodeCreateScan(cfg, failAt, garbage)
                    IN  /\ list' = r.list
                        /\ calls' = r.calls
                        /\ ret' = r.ret
    /\ UNCHANGED <<crashed, arrived, phase, nTeardown, nPut, nDestroy, published>>

\* ------------------------------------------------------- mtd_virt_concat_add
\* A completeness test that is off by one.
ItemFullOffByOne(item) == item.count + 1 = item.num_subdev

ItemFull(item) == item.count = item.num_subdev

NodeMatches(item, mtd) == \E idx \in 1..item.count : item.nodes[idx] = OfNode(mtd)

\* A variant that stores the device in the first slot (subdev[0]).
AddSubdevAtFirstSlot(item, mtd) ==
    [item EXCEPT !.subdev = [j \in DOMAIN item.subdev |->
                                IF j = 1 THEN mtd ELSE item.subdev[j]],
                 !.num_subdev = item.num_subdev + 1]

AddSubdev(item, mtd) ==
    [item EXCEPT !.subdev = [j \in DOMAIN item.subdev |->
                                IF j = item.num_subdev + 1 THEN mtd ELSE item.subdev[j]],
                 !.num_subdev = item.num_subdev + 1]

\* The list walk from the i-th item on: [list, ret].
RECURSIVE AddFrom(_, _, _)
AddFrom(l, i, mtd) ==
    IF i > Len(l) THEN [list |-> l, ret |-> FALSE]
    ELSE IF ItemFull(l[i]) THEN [list |-> l, ret |-> FALSE]
    ELSE IF NodeMatches(l[i], mtd)
    THEN [list |-> [l EXCEPT ![i] = AddSubdev(l[i], mtd)], ret |-> TRUE]
    ELSE AddFrom(l, i + 1, mtd)

mtd_virt_concat_add(mtd, ub) ==
    /\ ~crashed
    /\ phase = "probe"
    /\ arrived' = IF list = <<>> THEN arrived ELSE arrived \cup {mtd}
    /\ op' = "add"
    /\ calls' = <<>>
    /\ IF AnyFreed(list) /\ ub = "crash"
       THEN /\ crashed' = TRUE
            /\ UNCHANGED <<list, ret>>
       ELSE LET r == AddFrom(list, 1, mtd)
            IN  /\ list' = r.list
                /\ ret' = r.ret
                /\ UNCHANGED crashed
    /\ UNCHANGED <<phase, nScan, nTeardown, nPut, nDestroy, published>>

\* --------------------------------------------- mtd_virt_concat_put_mtd_devices
RECURSIVE PutFrom(_, _, _)
PutFrom(item, j, cs) ==
    IF j > item.num_subdev THEN cs
    ELSE PutFrom(item, j + 1, Append(cs, Ev("put_mtd_device", item.subdev[j])))

mtd_virt_concat_put_mtd_devices(item, cs) == PutFrom(item, 1, cs)

\* ----------------------------------------------- mtd_virt_concat_create_join
\* What the environment makes fail in one pass: nothing, or the kmalloc of the
\* name, mtd_concat_create or mtd_device_register for the at-th item.  A
\* successful mtd_concat_create for the i-th item returns BuiltMtd(i).
Fails(l) == {[kind |-> "none", at |-> 0]}
               \cup [kind : {"kmalloc", "create", "register"}, at : DOMAIN l]

\* The outcomes undefined behaviour can have, where an operation has any.
Outcomes(undefined) == IF undefined THEN UbOutcomes ELSE {"stale"}

\* concat->subdev[0]->name and concat->subdev[1]->name are read; a slot that
\* was never filled is NULL (kcalloc), and the kernel oopses on the read.
NameReadsNull(item) == item.subdev[1] = NULL \/ item.subdev[2] = NULL

Members(item) == SubSeq(item.subdev, 1, item.num_subdev)

\* The destroy_concat label (lines 256-259): the device that failed to
\* register is destroyed and the error returned.
\* Variants of the label: one that returns without the destroy, one that
\* destroys the device of the first item of the list.
destroy_concat_missing(cs, mtd, r) ==
    [calls |-> cs, ret |-> r, crashed |-> FALSE]
destroy_concat_first(cs, mtd, r) ==
    [calls |-> Append(cs, Ev("mtd_concat_destroy", BuiltMtd(1))),
     ret |-> r, crashed |-> FALSE]

destroy_concat(cs, mtd, r) ==
    [calls |-> Append(cs, Ev("mtd_concat_destroy", mtd)),
     ret |-> r, crashed |-> FALSE]

\* The list walk from the i-th item on: [calls, ret, crashed].
RECURSIVE JoinFrom(_, _, _, _, _)
JoinFrom(l, i, cs, fail, ub) ==
    IF i > Len(l) THEN [calls |-> cs, ret |-> 0, crashed |-> FALSE]
    ELSE IF (l[i].freed /\ ub = "crash") \/ NameReadsNull(l[i])
    THEN [calls |-> cs, ret |-> 0, crashed |-> TRUE]
    ELSE IF fail = [kind |-> "kmalloc", at |-> i]
    THEN [calls |-> mtd_virt_concat_put_mtd_devices(l[i], cs),
          ret |-> -ENOMEM, crashed |-> FALSE]
    ELSE LET c1 == Append(cs, Ev("kmalloc", NameObj(i)))
         IN  IF fail = [kind |-> "create", at |-> i]
             THEN [calls |-> Append(Append(c1, Ev("mtd_concat_create",
                                       [item |-> i, subdev |-> Members(l[i]), ok |-> FALSE])),
                                    Ev("kfree", NameObj(i))),
                   ret |-> -ENXIO, crashed |-> FALSE]
             ELSE LET c2 == Append(c1, Ev("mtd_concat_create",
                                       [item |-> i, subdev |-> Members(l[i]), ok |-> TRUE]))
                  IN  IF fail = [kind |-> "register", at |-> i]
                      THEN destroy_concat(
                               Append(c2, Ev("mtd_device_register_err", BuiltMtd(i))),
                               BuiltMtd(i), -EIO)
                      ELSE JoinFrom(l, i + 1,
                                    Append(c2, Ev("mtd_device_register", BuiltMtd(i))),
                                    fail, ub)

mtd_virt_concat_create_join(fail, ub) ==
    /\ ~crashed
    /\ phase = "probe"
    /\ phase' = "late"
    /\ op' = "create_join"
    /\ LET r == JoinFrom(list, 1, <<>>, fail, ub)
       IN  /\ calls' = r.calls
           /\ crashed' = r.crashed
           /\ ret' = r.ret
           /\ nPut' = PutAfter(r.calls)
           /\ nDestroy' = DestroyAfter(r.calls)
           /\ published' = PublishedAfter(r.calls)
    /\ UNCHANGED <<list, arrived, nScan, nTeardown>>

\* --------------------------------------------- mtd_virt_concat_destroy_joins
\* item->concat is set before the item is linked, so the test of line 53
\* passes for every item; mtd is the struct mtd_info inside item->concat,
\* whose name is NULL (kfree(NULL) does nothing).
\* A variant that unregisters and destroys the device mtd_concat_create
\* returned for the item.
RECURSIVE DestroyJoinsFromBuilt(_, _, _)
DestroyJoinsFromBuilt(l, i, cs) ==
    IF i > Len(l) THEN cs
    ELSE DestroyJoinsFromBuilt(l, i + 1,
            mtd_virt_concat_put_mtd_devices(l[i],
                Append(Append(cs, Ev("mtd_device_unregister", BuiltMtd(i))),
                       Ev("mtd_concat_destroy", BuiltMtd(i)))))

RECURSIVE DestroyJoinsFrom(_, _, _)
DestroyJoinsFrom(l, i, cs) ==
    IF i > Len(l) THEN cs
    ELSE DestroyJoinsFrom(l, i + 1,
            mtd_virt_concat_put_mtd_devices(l[i],
                Append(Append(cs, Ev("mtd_device_unregister", EmbMtd(i))),
                       Ev("mtd_concat_destroy", EmbMtd(i)))))

mtd_virt_concat_destroy_joins(l) == DestroyJoinsFrom(l, 1, <<>>)

\* The struct mtd_info the i-th item holds for the module exit to unregister
\* and destroy (lines 52-53): item->concat is set before the item is linked
\* (line 95) and create_join stores nothing in the item, so it is always the
\* one inside item->concat.  The empty set stands for no handle.
ItemMtd(i) == {EmbMtd(i)}

\* ------------------------------------------------------ mtd_virt_concat_exit
mtd_virt_concat_exit(ub) ==
    /\ ~crashed
    /\ phase \in {"late", "exit"}
    /\ nTeardown < MaxTeardown
    /\ nTeardown' = nTeardown + 1
    /\ phase' = "exit"
    /\ op' = "exit"
    /\ IF AnyFreed(list) /\ ub = "crash"
       THEN /\ crashed' = TRUE
            /\ calls' = <<>>
            /\ UNCHANGED <<list, nPut, nDestroy, published>>
       ELSE LET r == mtd_virt_concat_destroy_items(
                         [list |-> list,
                          calls |-> mtd_virt_concat_destroy_joins(list)])
            IN  /\ list' = r.list
                /\ calls' = r.calls
                /\ nPut' = PutAfter(r.calls)
                /\ nDestroy' = DestroyAfter(r.calls)
                /\ published' = PublishedAfter(r.calls)
                /\ UNCHANGED crashed
    /\ UNCHANGED <<ret, arrived, nScan>>

\* ------------------------------------------------------------ specification
Init ==
    /\ list = <<>>
    /\ calls = <<>>
    /\ op = "none"
    /\ ret = 0
    /\ crashed = FALSE
    /\ arrived = {}
    /\ phase = "probe"
    /\ nScan = 0
    /\ nTeardown = 0
    /\ nPut = [d \in Devices |-> 0]
    /\ nDestroy = [m \in Mtds |-> 0]
    /\ published = {}

Next ==
    \/ mtd_virt_concat_node_create
    \/ \E mtd \in Devices, ub \in Outcomes(AnyFreed(list)) : mtd_virt_concat_add(mtd, ub)
    \/ \E fail \in Fails(list),
          ub \in Outcomes(AnyFreed(list)) :
            mtd_virt_concat_create_join(fail, ub)
    \/ \E ub \in Outcomes(AnyFreed(list)) : mtd_virt_concat_exit(ub)

Spec == Init /\ [][Next]_vars

\* ------------------------------------------------------------------ claims
Complete(item) == item.num_subdev = item.count
Expects(item, mtd) == \E idx \in DOMAIN item.nodes : item.nodes[idx] = OfNode(mtd)
Holds(item, mtd) == \E j \in 1..item.num_subdev : item.subdev[j] = mtd
Occurrences(item, mtd) == Cardinality({j \in 1..item.num_subdev : item.subdev[j] = mtd})
Called(f, x) == Count(calls, Ev(f, x)) > 0
Is(cs, j, f, x) == cs[j][1] = f /\ cs[j][2] = x

\* A step of mtd_virt_concat_add(mtd) that did not oops.
AddStep(mtd) == ~crashed' /\ (\E ub \in UbOutcomes : mtd_virt_concat_add(mtd, ub))

\* C1: offer(d) returns true exactly when some group that is not yet complete
\* expects d, wherever that group sits in the list and whatever the groups
\* before it hold; otherwise it returns false and changes nothing.
C1_OfferTrueIffPendingGroupExpects ==
    [][\A mtd \in Devices :
          AddStep(mtd) =>
            /\ ret' = (\E i \in DOMAIN list : ~Complete(list[i]) /\ Expects(list[i], mtd))
            /\ (ret' = FALSE => list' = list)]_vars

\* C2: once every device a group expects has been offered (each accepted at
\* most once, the group sharing no node with another group), the group is
\* complete, holds exactly those devices, and a successful late join hands
\* exactly its members, in their order, to mtd_concat_create.
SharesNoNode(i) ==
    \A k \in DOMAIN list : k # i =>
        \A a \in DOMAIN list[i].nodes, b \in DOMAIN list[k].nodes :
            list[i].nodes[a] # list[k].nodes[b]
NoRepeatedMember ==
    \A i \in DOMAIN list : \A d \in Devices : Occurrences(list[i], d) <= 1
AllExpectedOffered(i) ==
    \A idx \in DOMAIN list[i].nodes : \E d \in arrived : OfNode(d) = list[i].nodes[idx]
C2_AllOfferedThenCompleteAndJoined ==
    \A i \in DOMAIN list :
        (~list[i].freed /\ SharesNoNode(i) /\ NoRepeatedMember /\ AllExpectedOffered(i)) =>
            /\ Complete(list[i])
            /\ \A d \in Devices : Expects(list[i], d) => Holds(list[i], d)
            /\ (op = "create_join" /\ ~crashed /\ ret = 0) =>
                   Called("mtd_concat_create",
                          [item |-> i, subdev |-> Members(list[i]), ok |-> TRUE])

\* C3: a device handle occurs at most once in the members of a group and in
\* the members of at most one group.
C3_DeviceMatchedAtMostOnce ==
    \A d \in Devices :
        /\ \A i \in DOMAIN list : Occurrences(list[i], d) <= 1
        /\ \A i, k \in DOMAIN list : (Holds(list[i], d) /\ Holds(list[k], d)) => i = k

\* C4: no group ever holds more members than it expects; a device offered to
\* a complete group does not grow it.
C4_MembersWithinExpected ==
    \A i \in DOMAIN list : list[i].num_subdev <= list[i].count

\* C4 witness: a complete group was offered one of its own devices again and
\* the offer was refused.
C4_Witness ==
    /\ op = "add" /\ ~crashed /\ ret = FALSE
    /\ Len(list) = 1 /\ Complete(list[1]) /\ ~list[1].freed
    /\ \A d \in Devices : Occurrences(list[1], d) <= 1
    /\ arrived # {} /\ \A d \in arrived : Expects(list[1], d)

\* What the last scan was told about the device tree.
Qualifies(k) ==
    /\ Called("of_device_is_available", <<k, TRUE>>)
    /\ Len(DtNodes[k]) >= MIN_DEV_PER_CONCAT
Qualifying == {k \in DOMAIN DtNodes : Qualifies(k)}
Scanned == op = "node_create" /\ calls # <<>>

\* C5: a successful scan of a tree with N qualifying nodes returns N and
\* leaves N items, in tree order, each with the node's phandles and no member.
C5_DiscoverReturnsGroupCount ==
    (Scanned /\ ret >= 0) =>
        /\ ret = Cardinality(Qualifying)
        /\ Len(list) = Cardinality(Qualifying)
        /\ \A i \in DOMAIN list :
              /\ \E k \in Qualifying :
                    /\ list[i].nodes = DtNodes[k]
                    /\ Cardinality({q \in Qualifying : q < k}) = i - 1
              /\ list[i].count = Len(list[i].nodes)
              /\ list[i].num_subdev = 0
              /\ ~list[i].freed

\* C6: a scan that fails on an allocation returns -ENOMEM and leaves the list
\* empty.
C6_FailedDiscoverLeavesEmptyList ==
    (Scanned /\ ret < 0) => (ret = -ENOMEM /\ list = <<>>)

\* C7: the late join skips every incomplete group without error: nothing is
\* allocated, built or registered for it, and the pass does not oops.
JoinCallsFor(i) ==
    {j \in DOMAIN calls :
        \/ calls[j][1] = "kmalloc" /\ calls[j][2] = NameObj(i)
        \/ calls[j][1] = "mtd_concat_create" /\ calls[j][2].item = i
        \/ calls[j][1] \in {"mtd_device_register", "mtd_device_register_err"}
              /\ calls[j][2] = BuiltMtd(i)}
C7_JoinSkipsIncompleteGroups ==
    op = "create_join" =>
        /\ ~crashed
        /\ \A i \in DOMAIN list : ~Complete(list[i]) => JoinCallsFor(i) = {}

\* C8: when mtd_concat_create fails for a group, the late join puts every
\* member of that group and returns -ENXIO.
BuildFailedFor(i) ==
    Called("mtd_concat_create", [item |-> i, subdev |-> Members(list[i]), ok |-> FALSE])
C8_BuildFailureReleasesMembers ==
    \A i \in DOMAIN list :
        (op = "create_join" /\ ~crashed /\ BuildFailedFor(i)) =>
            /\ ret = -ENXIO
            /\ \A d \in Devices :
                  Count(calls, Ev("put_mtd_device", d)) = Occurrences(list[i], d)

\* C9: a second module exit right after the first does nothing.
C9_SecondTeardownIsNoOp ==
    (op = "exit" /\ nTeardown >= 2) => (~crashed /\ calls = <<>>)

\* C10: the first module exit, for each group whose joined device is
\* published, unregisters that device, then destroys it, then puts the
\* group's members, each once; when no group was joined it unregisters,
\* destroys and puts nothing.
Joined(i) == BuiltMtd(i) \in published
TeardownOrderFor(i, cs) ==
    \E u, d \in DOMAIN cs :
        /\ Is(cs, u, "mtd_device_unregister", BuiltMtd(i))
        /\ Is(cs, d, "mtd_concat_destroy", BuiltMtd(i))
        /\ u < d
        /\ Count(cs, Ev("mtd_device_unregister", BuiltMtd(i))) = 1
        /\ Count(cs, Ev("mtd_concat_destroy", BuiltMtd(i))) = 1
        /\ \A m \in Devices : Holds(list[i], m) =>
              \E p \in DOMAIN cs : p > d /\ Is(cs, p, "put_mtd_device", m)
PutsOfJoined(m) ==
    Cardinality({ij \in (DOMAIN list) \X (1..Len(DtNodes[Len(DtNodes)])) :
                    /\ Joined(ij[1])
                    /\ ij[2] <= list[ij[1]].num_subdev
                    /\ list[ij[1]].subdev[ij[2]] = m})
NoReleaseCalls(cs) ==
    \A j \in DOMAIN cs :
        cs[j][1] \notin {"mtd_device_unregister", "mtd_concat_destroy", "put_mtd_device"}
C10_TeardownReleasesJoinedGroupsInOrder ==
    [][(op' = "exit" /\ nTeardown = 0 /\ nTeardown' = 1 /\ ~crashed' /\ ~AnyFreed(list)) =>
          /\ \A i \in DOMAIN list : Joined(i) => TeardownOrderFor(i, calls')
          /\ \A m \in Devices : Count(calls', Ev("put_mtd_device", m)) = PutsOfJoined(m)
          /\ ((\A i \in DOMAIN list : ~Joined(i)) => NoReleaseCalls(calls'))]_vars

\* C11: a module exit after a late join that failed part-way makes no
\* unregister or destroy call on a device the join's own rollback destroyed;
\* over the whole run every device mtd_concat_create returned is destroyed at
\* most once.
BuiltDevices == {BuiltMtd(i) : i \in DOMAIN DtNodes}
ReleaseCallsOn(cs, m) ==
    Count(cs, Ev("mtd_device_unregister", m)) + Count(cs, Ev("mtd_concat_destroy", m))
C11_TeardownSparesRolledBackDevice ==
    [][/\ \A m \in BuiltDevices : nDestroy'[m] <= 1
       /\ op' = "exit" =>
              \A m \in BuiltDevices : nDestroy[m] > 0 => ReleaseCallsOn(calls', m) = 0]_vars

\* C11 witness: the module exit ran, and made its release calls, after a
\* late join that had destroyed the device it could not register.
C11_Witness ==
    /\ op = "exit" /\ ~crashed /\ nTeardown = 1
    /\ \E i \in DOMAIN list : nDestroy[BuiltMtd(i)] = 1 /\ Complete(list[i])
    /\ \E j \in DOMAIN calls : calls[j][1] = "mtd_concat_destroy"
    /\ NoRepeatedMember

\* C12: when mtd_device_register fails for a device just built, the late
\* join destroys that device with mtd_concat_destroy exactly once, after the
\* failed registration, returns the error, and the device is not registered.
RegisterFailedFor(i) == Called("mtd_device_register_err", BuiltMtd(i))
C12_RegisterFailureDestroysBuiltDevice ==
    \A i \in DOMAIN list :
        (op = "create_join" /\ ~crashed /\ RegisterFailedFor(i)) =>
            /\ ret = -EIO
            /\ Count(calls, Ev("mtd_concat_destroy", BuiltMtd(i))) = 1
            /\ nDestroy[BuiltMtd(i)] = 1
            /\ \E e, d \in DOMAIN calls :
                  /\ Is(calls, e, "mtd_device_register_err", BuiltMtd(i))
                  /\ Is(calls, d, "mtd_concat_destroy", BuiltMtd(i))
                  /\ e < d
            /\ BuiltMtd(i) \notin published

\* C12 witness: a late join in which the registration of a built device
\* failed.
C12_Witness ==
    /\ op = "create_join" /\ ~crashed
    /\ \E i \in DOMAIN list : RegisterFailedFor(i) /\ Complete(list[i])
    /\ NoRepeatedMember /\ ~AnyFreed(list)

\* C13: a node that is not available, or that lists fewer than
\* MIN_DEV_PER_CONCAT phandles, never gets an item, and skipping it does not
\* end the scan: a scan that returns no error looked at every node of the
\* tree, and when the loop reached the end of the tree the list holds the
\* qualifying nodes before and after it, in tree order.
FromQualifyingNode(item) == \E k \in Qualifying : item.nodes = DtNodes[k]
LoopReachedEnd == Called("of_device_is_available", <<0, FALSE>>)
Asked(k) ==
    Called("of_device_is_available", <<k, TRUE>>)
        \/ Called("of_device_is_available", <<k, FALSE>>)
Skipped(k) ==
    \/ Called("of_device_is_available", <<k, FALSE>>)
    \/ Called("of_count_phandle_with_args", <<k, Len(DtNodes[k])>>)
           /\ Len(DtNodes[k]) < MIN_DEV_PER_CONCAT
C13_SkippedNodesNeverAdded ==
    Scanned =>
        /\ \A i \in DOMAIN list :
              FromQualifyingNode(list[i]) /\ list[i].count >= MIN_DEV_PER_CONCAT
        /\ ret >= 0 => (LoopReachedEnd /\ \A k \in DOMAIN DtNodes : Asked(k))
        /\ LoopReachedEnd =>
              /\ Len(list) = Cardinality(Qualifying)
              /\ \A k \in Qualifying :
                    list[Cardinality({q \in Qualifying : q < k}) + 1].nodes = DtNodes[k]

\* C13 witness: a successful scan skipped an under-sized node and a disabled
\* node that lie between two qualifying nodes, and added both of these.
C13_Witness ==
    /\ Scanned /\ ret >= 0 /\ LoopReachedEnd
    /\ \E a, b, c, d \in DOMAIN DtNodes :
          /\ a < b /\ b < c /\ c < d
          /\ Qualifies(a) /\ Qualifies(d)
          /\ Skipped(b) /\ Len(DtNodes[b]) < MIN_DEV_PER_CONCAT
          /\ Skipped(c) /\ Called("of_device_is_available", <<c, FALSE>>)
          /\ Len(list) = 2
          /\ list[1].nodes = DtNodes[a] /\ list[2].nodes = DtNodes[d]

\* C14: mtd_virt_concat_node_create called while the list holds an item
\* returns 0 at once and changes nothing: it makes no call, and no item is
\* added, removed or modified.
C14_DiscoverOnHeldListChangesNothing ==
    [][(op' = "node_create" /\ list # <<>>) =>
          /\ ret' = 0
          /\ calls' = <<>>
          /\ list' = list
          /\ UNCHANGED <<crashed, phase, nScan, nTeardown, nPut, nDestroy, published>>]_vars

\* C14 witness: mtd_virt_concat_node_create returned from its guard on a list
\* whose items had already taken devices.
C14_Witness ==
    /\ op = "node_create" /\ calls = <<>> /\ ret = 0 /\ ~crashed
    /\ Len(list) >= 2 /\ ~AnyFreed(list)
    /\ \E i \in DOMAIN list : list[i].num_subdev > 0

\* C15: in every state an item holds no joined device unless the late join
\* built and registered one for it; after a late join that returns 0 each
\* complete item holds exactly the device mtd_concat_create returned and
\* mtd_device_register published, and each incomplete item holds none.
C15_JoinedHandleIsBuiltDevice ==
    \A i \in DOMAIN list :
        /\ \A h \in ItemMtd(i) : h = BuiltMtd(i) /\ h \in published
        /\ (op = "create_join" /\ ~crashed /\ ret = 0) =>
               IF Complete(list[i])
               THEN ItemMtd(i) = {BuiltMtd(i)} /\ BuiltMtd(i) \in published
               ELSE ItemMtd(i) = {}

\* C16: when the late join fails on an item (mtd_concat_create or
\* mtd_device_register) after it registered the devices of earlier items in
\* the same pass, it destroys only the device under construction: the earlier
\* devices are still built and registered when it returns the error.
RegisteredInPass(i) == Called("mtd_device_register", BuiltMtd(i))
C16_LaterFailureKeepsEarlierJoins ==
    (op = "create_join" /\ ~crashed /\ ret \in {-ENXIO, -EIO}) =>
        /\ \A i \in DOMAIN list :
              RegisteredInPass(i) =>
                 /\ BuiltMtd(i) \in published
                 /\ nDestroy[BuiltMtd(i)] = 0
                 /\ ReleaseCallsOn(calls, BuiltMtd(i)) = 0
        /\ \A j \in DOMAIN calls :
              calls[j][1] = "mtd_concat_destroy" =>
                 Called("mtd_device_register_err", calls[j][2])

\* C16 witness: the registration of a later item's device failed, and was
\* rolled back, after an earlier item's device was registered in the pass.
C16_Witness ==
    /\ op = "create_join" /\ ~crashed /\ ret = -EIO
    /\ \E i, k \in DOMAIN list :
          /\ i < k
          /\ RegisteredInPass(i) /\ BuiltMtd(i) \in published
          /\ RegisterFailedFor(k) /\ nDestroy[BuiltMtd(k)] = 1
          /\ Complete(list[i]) /\ Complete(list[k])
    /\ NoRepeatedMember /\ ~AnyFreed(list)

\* The step appended mtd to the members of the i-th item, at index
\* num_subdev, and changed nothing else in the list.
AppendedTo(i, mtd) ==
    /\ Len(list') = Len(list)
    /\ \A k \in DOMAIN list : k # i => list'[k] = list[k]
    /\ list'[i].count = list[i].count
    /\ list'[i].nodes = list[i].nodes
    /\ list'[i].freed = list[i].freed
    /\ list'[i].num_subdev = list[i].num_subdev + 1
    /\ list'[i].subdev[list[i].num_subdev + 1] = mtd
    /\ \A j \in DOMAIN list[i].subdev :
          j # list[i].num_subdev + 1 => list'[i].subdev[j] = list[i].subdev[j]

\* C17: when the node of the offered device is expected by several
\* incomplete items, mtd_virt_concat_add appends the device, once and at
\* index num_subdev, to the earliest of them only, and returns true.
PendingExpecting(mtd) ==
    {i \in DOMAIN list : ~Complete(list[i]) /\ Expects(list[i], mtd)}
Earliest(S) == CHOOSE i \in S : \A k \in S : i <= k
C17_OfferGoesToEarliestPendingGroup ==
    [][\A mtd \in Devices :
          (AddStep(mtd) /\ ~AnyFreed(list) /\ NoRepeatedMember
              /\ Cardinality(PendingExpecting(mtd)) >= 2) =>
             /\ ret' = TRUE
             /\ AppendedTo(Earliest(PendingExpecting(mtd)), mtd)]_vars

\* C18: a mtd_virt_concat_add that returns true appends the device to the
\* members of one item and changes nothing else: the items and their order,
\* every item's nodes and joined device, the members already held, the
\* members of the other items, and the environment.
C18_OfferOnlyAppendsMember ==
    [][\A mtd \in Devices :
          (AddStep(mtd) /\ ret' = TRUE) =>
             /\ \E i \in DOMAIN list : AppendedTo(i, mtd)
             /\ UNCHANGED <<phase, nScan, nTeardown, nPut, nDestroy, published>>]_vars

\* C18 witness: an accepted offer added a second member to an item of a list
\* of several items.
C18_Witness ==
    /\ op = "add" /\ ~crashed /\ ret = TRUE
    /\ Len(list) >= 2 /\ ~AnyFreed(list) /\ NoRepeatedMember
    /\ \E i, k \in DOMAIN list :
          i # k /\ list[i].num_subdev >= 2 /\ list[k].num_subdev >= 1

\* C19: over a run of scan, offers, late join (whatever its outcome) and one
\* module exit, put_mtd_device is called on a device at most once for each
\* time mtd_virt_concat_add accepted it: no device is put both by the late
\* join's failure handling and again by the module exit.
TimesAccepted(d) ==
    Cardinality({ij \in (DOMAIN list) \X (1..Len(DtNodes[Len(DtNodes)])) :
                    /\ ij[2] <= list[ij[1]].num_subdev
                    /\ list[ij[1]].subdev[ij[2]] = d})
C19_MemberPutAtMostOnce ==
    (nTeardown <= 1 /\ ~crashed /\ NoRepeatedMember) =>
        \A d \in Devices : nPut[d] <= TimesAccepted(d)

\* C20: when mtd_virt_concat_node_create returns an error, every allocation
\* it made (item, nodes, concat, subdev) was freed exactly once and every
\* reference of_parse_phandle took was put exactly once.
Acquired(x) ==
    Count(calls, Ev("kzalloc", x)) + Count(calls, Ev("kcalloc", x))
        + Count(calls, Ev("of_parse_phandle", x))
Released(x) == Count(calls, Ev("kfree", x)) + Count(calls, Ev("of_node_put", x))
C20_FailedDiscoverReleasesEverything ==
    (Scanned /\ ret < 0) =>
        \A j \in DOMAIN calls :
            calls[j][1] \in {"kzalloc", "kcalloc", "of_parse_phandle", "kfree"} =>
                Acquired(calls[j][2]) = Released(calls[j][2])

====
